---- MODULE Spec2Model ----
(***************************************************************************)
(* Model of api/main.py (PolicyMe Cortex API): the rule-based fraud        *)
(* scorer calculate_fraud_score, the adjudicator ai_analyze_claim with its *)
(* Gemini call and rule-based fallback, and the request handler            *)
(* analyze_claim running on the server's single event loop.                *)
(*                                                                         *)
(* Text is a sequence of one-character strings.  Money is an integer:      *)
(* claimedAmount in cents, payouts in 1/10000 of a dollar, so that         *)
(* amount * 0.85 is exact and round(x, 2) is a real rounding.  Scores are  *)
(* in hundredths of a point, the resolution round(score, 2) keeps.         *)
(***************************************************************************)
EXTENDS Integers, Sequences, FiniteSets, TLC

\* ------------------------------------------------------------------ bounds
\* Number of analyze requests that can be in flight at once.
NumReq == 2

\* --------------------------------------------------------------- constants
ScoreScale == 100           \* hundredths of a point: round(score, 2)
CentScale == 100            \* payout units per cent: amount * 0.xx is exact
HighAmount == 5000000       \* 50000 dollars, in cents
MinDescLen == 50
MinLocLen == 5
WAmount == 25
WShort == 15
WRisk == 20
WWeekend == 10
WMulti == 15
WLocation == 10
MaxScore == 100
LowBelow == 30
MediumBelow == 60
ApproveBelow == 30
ReviewAbove == 40
LowPayoutAbove == 60
FlagAbove == 80
RateHigh == 60              \* 0.6, in percent
RateNormal == 85            \* 0.85, in percent
RateDefault == 80           \* 0.8, in percent

\* ------------------------------------------------------------------- text
Upper == <<"A","B","C","D","E","F","G","H","I","J","K","L","M",
           "N","O","P","Q","R","S","T","U","V","W","X","Y","Z">>
LowerAlpha == <<"a","b","c","d","e","f","g","h","i","j","k","l","m",
           "n","o","p","q","r","s","t","u","v","w","x","y","z">>
Digits == <<"0","1","2","3","4","5","6","7","8","9">>

\* str.lower() on one character
LowerChar(c) ==
  IF \E k \in 1..26 : Upper[k] = c
  THEN LowerAlpha[CHOOSE k \in 1..26 : Upper[k] = c]
  ELSE c

\* str.lower()
Lower(s) == [k \in 1..Len(s) |-> LowerChar(s[k])]

\* the substring test  w in s
Contains(s, w) ==
  \E k \in 1..(Len(s) - Len(w) + 1) : SubSeq(s, k, k + Len(w) - 1) = w

\* str.replace('Z', '+00:00')
RECURSIVE ReplaceZ(_)
ReplaceZ(s) ==
  IF s = <<>> THEN <<>>
  ELSE IF Head(s) = "Z" THEN <<"+","0","0",":","0","0">> \o ReplaceZ(Tail(s))
  ELSE <<Head(s)>> \o ReplaceZ(Tail(s))

IsDigit(c) == \E k \in 1..10 : Digits[k] = c
DigitVal(c) == (CHOOSE k \in 1..10 : Digits[k] = c) - 1
AllDigits(s) == \A k \in 1..Len(s) : IsDigit(s[k])

RECURSIVE Num(_)
Num(s) == IF s = <<>> THEN 0 ELSE 10 * Num(SubSeq(s, 1, Len(s) - 1)) + DigitVal(s[Len(s)])

\* ------------------------------------------------------------------ dates
IsLeap(y) == (y % 4 = 0) /\ ((y % 100 # 0) \/ (y % 400 = 0))
DaysInMonth(y, m) ==
  IF m = 2 THEN (IF IsLeap(y) THEN 29 ELSE 28)
  ELSE IF m \in {4, 6, 9, 11} THEN 30 ELSE 31

RECURSIVE DaysBeforeMonth(_, _)
DaysBeforeMonth(y, m) ==
  IF m = 1 THEN 0 ELSE DaysBeforeMonth(y, m - 1) + DaysInMonth(y, m - 1)

\* date.toordinal(): day 1 is 0001-01-01
Ordinal(y, m, d) ==
  (y - 1) * 365 + ((y - 1) \div 4) - ((y - 1) \div 100) + ((y - 1) \div 400)
  + DaysBeforeMonth(y, m) + d

\* datetime.weekday(): Monday is 0, Sunday is 6
Weekday(y, m, d) == (Ordinal(y, m, d) + 6) % 7

\* HH:MM:SS
TimeOk(t) ==
  /\ Len(t) = 8
  /\ AllDigits(SubSeq(t, 1, 2)) /\ t[3] = ":"
  /\ AllDigits(SubSeq(t, 4, 5)) /\ t[6] = ":"
  /\ AllDigits(SubSeq(t, 7, 8))
  /\ Num(SubSeq(t, 1, 2)) < 24
  /\ Num(SubSeq(t, 4, 5)) < 60
  /\ Num(SubSeq(t, 7, 8)) < 60

\* +HH:MM
OffsetOk(t) ==
  /\ Len(t) = 6
  /\ t[1] \in {"+", "-"}
  /\ AllDigits(SubSeq(t, 2, 3)) /\ t[4] = ":"
  /\ AllDigits(SubSeq(t, 5, 6))
  /\ Num(SubSeq(t, 2, 3)) < 24
  /\ Num(SubSeq(t, 5, 6)) < 60

\* the part of the text after the date: nothing, or a separator and a time
\* with an optional UTC offset
RestOk(t) ==
  \/ t = <<>>
  \/ /\ Len(t) = 9 /\ TimeOk(SubSeq(t, 2, 9))
  \/ /\ Len(t) = 15 /\ TimeOk(SubSeq(t, 2, 9)) /\ OffsetOk(SubSeq(t, 10, 15))

\* datetime.fromisoformat: TRUE when it returns, FALSE when it raises
IsoOk(t) ==
  /\ Len(t) >= 10
  /\ AllDigits(SubSeq(t, 1, 4)) /\ t[5] = "-"
  /\ AllDigits(SubSeq(t, 6, 7)) /\ t[8] = "-"
  /\ AllDigits(SubSeq(t, 9, 10))
  /\ Num(SubSeq(t, 1, 4)) >= 1
  /\ Num(SubSeq(t, 6, 7)) \in 1..12
  /\ Num(SubSeq(t, 9, 10)) \in 1..DaysInMonth(Num(SubSeq(t, 1, 4)), Num(SubSeq(t, 6, 7)))
  /\ RestOk(SubSeq(t, 11, Len(t)))

\* weekday of the parsed text
IsoWeekday(t) ==
  Weekday(Num(SubSeq(t, 1, 4)), Num(SubSeq(t, 6, 7)), Num(SubSeq(t, 9, 10)))

\* lines 84-90: the rule fires when the text parses and the day is Sat/Sun
WeekendFires(dateTime) ==
  LET t == ReplaceZ(dateTime)
  IN IsoOk(t) /\ IsoWeekday(t) >= 5

\* --------------------------------------------------------------- requests
\* claimedAmount: Optional[float]; JSON null is accepted and kept as None
NoneAmount == [isNone |-> TRUE, cents |-> 0]
Amount(c) == [isNone |-> FALSE, cents |-> c]

Pad(n) == [k \in 1..n |-> "x"]

\* description texts on both sides of the 50-character limit, with and
\* without a keyword, in several cases
Descriptions ==
  { <<"c","a","r">>,
    Pad(MinDescLen - 5) \o <<"F","i","r","e">>,
    Pad(MinDescLen - 4) \o <<"F","i","r","e">>,
    Pad(MinDescLen),
    Pad(MinDescLen) \o <<"T","o","t","a","l"," ","L","O","S","S">> }

DateTimes ==
  { <<"2","0","2","4","-","0","1","-","0","6">>,
    <<"2","0","2","4","-","0","1","-","0","7","T","1","2",":","0","0",":","0","0","Z">>,
    <<"2","0","2","4","-","0","1","-","0","8","T","0","9",":","3","0",":","0","0">>,
    <<"l","a","s","t"," ","S","u","n","d","a","y">> }

Locations ==
  { <<>>, Pad(MinLocLen - 1), Pad(MinLocLen) }

Amounts ==
  { NoneAmount, Amount(0), Amount(HighAmount), Amount(HighAmount + 1) }

\* the values the IncidentData model accepts (lines 32-38)
Incidents ==
  [ location : Locations, dateTime : DateTimes, description : Descriptions,
    injuries : BOOLEAN, propertyDamage : BOOLEAN, claimedAmount : Amounts ]

NoIncident ==
  [ location |-> <<>>, dateTime |-> <<>>, description |-> <<>>,
    injuries |-> FALSE, propertyDamage |-> FALSE, claimedAmount |-> Amount(0) ]

\* ----------------------------------------------------------------- scorer
Keywords ==
  { <<"s","t","o","l","e","n">>,
    <<"t","o","t","a","l"," ","l","o","s","s">>,
    <<"f","i","r","e">>,
    <<"f","l","o","o","d">> }

NoFraud == [score |-> 0, risk_level |-> "", indicators |-> <<>>, confidence |-> 0]

\* Rule with the name put in front of the list
RuleFront(acc, fires, weight, name) ==
  IF fires
  THEN [score |-> acc.score + weight, indicators |-> <<name>> \o acc.indicators]
  ELSE acc

\* one rule of lines 71-100: add the weight and append the name when it fires
Rule(acc, fires, weight, name) ==
  IF fires
  THEN [score |-> acc.score + weight, indicators |-> Append(acc.indicators, name)]
  ELSE acc

\* DescriptionRule with two independent ifs in place of if / elif
DescriptionRuleBoth(acc, description) ==
  Rule(Rule(acc, Len(description) < MinDescLen, WShort, "Insufficient details"),
       \E w \in Keywords : Contains(Lower(description), w),
       WRisk, "High-risk incident type")

\* lines 76-81: the if / elif on the description
DescriptionRule(acc, description) ==
  IF Len(description) < MinDescLen
  THEN Rule(acc, TRUE, WShort, "Insufficient details")
  ELSE Rule(acc, \E w \in Keywords : Contains(Lower(description), w),
            WRisk, "High-risk incident type")

\* RiskLevel with <= in place of <
RiskLevelInclusive(score) ==
  IF score <= LowBelow * ScoreScale THEN "Low"
  ELSE IF score <= MediumBelow * ScoreScale THEN "Medium"
  ELSE "High"

\* lines 104-112
RiskLevel(score) ==
  IF score < LowBelow * ScoreScale THEN "Low"
  ELSE IF score < MediumBelow * ScoreScale THEN "Medium"
  ELSE "High"

\* confidence, in hundredths
Confidence(score) ==
  IF score < LowBelow * ScoreScale THEN 85
  ELSE IF score < MediumBelow * ScoreScale THEN 75
  ELSE 90

Min(a, b) == IF a < b THEN a ELSE b

\* the raw score and indicators accumulated by lines 67-100 (claimedAmount
\* is a number)
Accumulate(incident) ==
  LET a0 == [score |-> 0, indicators |-> <<>>]
      a1 == Rule(a0, incident.claimedAmount.cents > HighAmount, WAmount, "High claim amount")
      a2 == DescriptionRule(a1, incident.description)
      a3 == Rule(a2, WeekendFires(incident.dateTime), WWeekend, "Weekend incident")
      a4 == Rule(a3, incident.injuries /\ incident.propertyDamage, WMulti, "Multiple damage types")
      a5 == Rule(a4, incident.location = <<>> \/ Len(incident.location) < MinLocLen,
                 WLocation, "Vague location")
  IN a5

\* calculate_fraud_score (lines 65-119).  raised = "" when it returns;
\* comparing None with a number raises TypeError at line 71.
calculate_fraud_score(incident) ==
  IF incident.claimedAmount.isNone
  THEN [raised |-> "TypeError", value |-> NoFraud]
  ELSE LET acc == Accumulate(incident)
           score == Min(acc.score, MaxScore) * ScoreScale
       IN [raised |-> "",
           value |-> [score |-> score,
                      risk_level |-> RiskLevel(score),
                      indicators |-> acc.indicators,
                      confidence |-> Confidence(score)]]

\* ------------------------------------------------- the collaborator's reply
\* A JSON value: t is its type, with the payload in s (string), n (number,
\* in 1/10000) or l (array of strings).
JStr(x) == [t |-> "str", s |-> x, n |-> 0, l |-> <<>>]
JNum(x) == [t |-> "num", s |-> "", n |-> x, l |-> <<>>]
JList(x) == [t |-> "list", s |-> "", n |-> 0, l |-> x]
JNull == [t |-> "null", s |-> "", n |-> 0, l |-> <<>>]

Dollars(d) == d * 100 * CentScale

\* A JSON document: an object (fields: the keys present and their values)
\* or something that is not an object.
Obj(f) == [kind |-> "object", fields |-> f]
NotObj(k) == [kind |-> k, fields |-> [x \in {} |-> JNull]]

FullDoc(v, r, p, fl, why) ==
  Obj([k \in {"validity", "recommendation", "estimated_payout", "red_flags", "reasoning"} |->
        CASE k = "validity" -> v
          [] k = "recommendation" -> r
          [] k = "estimated_payout" -> p
          [] k = "red_flags" -> fl
          [] OTHER -> why])

Without(doc, keys) ==
  Obj([k \in (DOMAIN doc.fields) \ keys |-> doc.fields[k]])

GoodDoc ==
  FullDoc(JStr("valid"), JStr("auto_approve"), JNum(Dollars(500)),
          JList(<<"late report">>), JStr("consistent story"))
RejectDoc ==
  FullDoc(JStr("invalid"), JStr("reject"), JNum(0),
          JList(<<>>), JStr("staged"))
ReviewDoc ==
  FullDoc(JStr("questionable"), JStr("manual_review"), JStr("1200"),
          JList(<<"late report", "no witness">>), JStr("unclear"))

Docs ==
  { GoodDoc, RejectDoc, ReviewDoc,
    Obj([x \in {} |-> JNull]),
    Without(GoodDoc, {"estimated_payout", "reasoning"}),
    Without(RejectDoc, {"validity", "red_flags"}),
    Without(GoodDoc, {"recommendation"}),
    FullDoc(JStr("maybe"), JStr("approve"), JNum(Dollars(500)), JList(<<>>), JStr("ok")),
    FullDoc(JStr("valid"), JStr("auto_approve"), JStr("about 500"), JList(<<>>), JStr("ok")),
    FullDoc(JStr("valid"), JStr("auto_approve"), JNull, JList(<<>>), JStr("ok")),
    FullDoc(JNum(Dollars(7)), JStr("reject"), JNum(0), JList(<<>>), JStr("ok")),
    FullDoc(JStr("valid"), JList(<<"reject">>), JNum(0), JList(<<>>), JStr("ok")),
    FullDoc(JStr("valid"), JStr("reject"), JNum(0), JStr("none"), JStr("ok")),
    FullDoc(JStr("valid"), JStr("reject"), JNum(0), JList(<<>>), JNull),
    NotObj("array"), NotObj("number") }

\* The reply text as a sequence of tokens: a ```json marker, a ``` marker,
\* whitespace, prose, or the text of a JSON document.
Tok(k, d) == [k |-> k, doc |-> d]
FJ == Tok("fj", NotObj("none"))
FE == Tok("f", NotObj("none"))
WS == Tok("ws", NotObj("none"))
Prose == Tok("prose", NotObj("none"))
DocTok(d) == Tok("doc", d)

Shapes(d) ==
  { <<DocTok(d)>>,
    <<WS, DocTok(d), WS>>,
    <<FJ, WS, DocTok(d), WS, FE>>,
    <<FE, DocTok(d), FE, WS>>,
    <<Prose, FJ, DocTok(d), FE, Prose>> }

Texts ==
  { <<DocTok(d)>> : d \in Docs }
  \cup (UNION { Shapes(d) : d \in {GoodDoc, RejectDoc, NotObj("array")} })
  \cup { <<>>, <<Prose>>, <<Prose, DocTok(GoodDoc)>>, <<FJ, DocTok(GoodDoc)>>,
         <<FE, Prose, FE, DocTok(GoodDoc)>>, <<DocTok(GoodDoc), DocTok(GoodDoc)>> }

\* what model.generate_content / response.text does: raise, or give a text
Replies ==
  { [raises |-> TRUE, text |-> <<>>] } \cup { [raises |-> FALSE, text |-> t] : t \in Texts }

\* -------------------------------------------------------- reply processing
IndexOf(s, kinds) ==
  IF \E k \in 1..Len(s) : s[k].k \in kinds
  THEN CHOOSE k \in 1..Len(s) : s[k].k \in kinds /\ \A j \in 1..(k - 1) : s[j].k \notin kinds
  ELSE 0

\* s.split(marker): the piece before the first marker and the rest after it
Before(s, kinds) ==
  IF IndexOf(s, kinds) = 0 THEN s ELSE SubSeq(s, 1, IndexOf(s, kinds) - 1)
After(s, kinds) ==
  IF IndexOf(s, kinds) = 0 THEN <<>> ELSE SubSeq(s, IndexOf(s, kinds) + 1, Len(s))

\* str.strip()
RECURSIVE LStrip(_)
LStrip(s) == IF s # <<>> /\ Head(s).k = "ws" THEN LStrip(Tail(s)) ELSE s
RECURSIVE RStrip(_)
RStrip(s) ==
  IF s # <<>> /\ s[Len(s)].k = "ws" THEN RStrip(SubSeq(s, 1, Len(s) - 1)) ELSE s
Strip(s) == RStrip(LStrip(s))

\* lines 169-172: text.split("```json")[1].split("```")[0], or
\* text.split("```")[1].split("```")[0], or the text itself.  "```" is a
\* prefix of "```json", so splitting on "```" stops at either marker.
StripFence(text) ==
  IF IndexOf(text, {"fj"}) # 0
  THEN Before(Before(After(text, {"fj"}), {"fj"}), {"f", "fj"})
  ELSE IF IndexOf(text, {"f"}) # 0
  THEN Before(Before(After(text, {"f"}), {"f"}), {"f"})
  ELSE text

\* json.loads raises unless the text is one JSON document
JsonOk(text) == Len(text) = 1 /\ text[1].k = "doc"

\* dict.get(key, default)
Get(fields, key, default) ==
  IF key \in DOMAIN fields THEN fields[key] ELSE default

\* float(x) at line 179: numbers and numeric strings convert
NumericText == [x \in {"1200"} |-> Dollars(1200)]
FloatOk(v) ==
  \/ v.t = "num"
  \/ v.t = "str" /\ v.s \in DOMAIN NumericText
FloatOf(v) == IF v.t = "num" THEN v.n ELSE NumericText[v.s]

\* pydantic's check of a str field: a string passes; a number is turned into
\* text by a lax build and refused by a strict one; anything else is refused
StrOk(v, lax) == v.t = "str" \/ (lax /\ v.t = "num")
StrOf(v) == IF v.t = "str" THEN v.s ELSE ToString(v.n \div Dollars(1))

\* pydantic's check of a List[str] field
ListOk(v) == v.t = "list"

NoAnalysis ==
  [validity |-> "", recommendation |-> "", estimated_payout |-> 0,
   red_flags |-> <<>>, reasoning |-> <<>>]

\* lines 176-182 on the parsed object: exc is "" or the exception raised,
\* in the order the arguments are evaluated and then validated
BuildAnalysis(fields, incident, fraud_score, lax) ==
  LET validity == Get(fields, "validity", JStr("needs_review"))
      recommendation == Get(fields, "recommendation", JStr("manual_review"))
      payout == Get(fields, "estimated_payout",
                    JNum(incident.claimedAmount.cents * RateDefault))
      red_flags == Get(fields, "red_flags", JList(fraud_score.indicators))
      reasoning == Get(fields, "reasoning", JStr("AI analysis completed"))
  IN IF incident.claimedAmount.isNone
     THEN [exc |-> "unsupported operand type(s) for *: 'NoneType' and 'float'",
           value |-> NoAnalysis]
     ELSE IF ~FloatOk(payout)
     THEN [exc |-> "float() could not convert the value", value |-> NoAnalysis]
     ELSE IF ~(StrOk(validity, lax) /\ StrOk(recommendation, lax)
               /\ ListOk(red_flags) /\ StrOk(reasoning, lax))
     THEN [exc |-> "validation error for AIAnalysis", value |-> NoAnalysis]
     ELSE [exc |-> "",
           value |-> [validity |-> StrOf(validity),
                      recommendation |-> StrOf(recommendation),
                      estimated_payout |-> FloatOf(payout),
                      red_flags |-> red_flags.l,
                      reasoning |-> <<StrOf(reasoning)>>]]

\* the try block, lines 164-182
TryBlock(incident, fraud_score, reply, lax) ==
  IF reply.raises
  THEN [exc |-> "503 service unavailable", value |-> NoAnalysis]
  ELSE LET body == Strip(StripFence(Strip(reply.text)))
       IN IF ~JsonOk(body)
          THEN [exc |-> "Expecting value", value |-> NoAnalysis]
          ELSE IF body[1].doc.kind # "object"
          THEN [exc |-> "object has no attribute 'get'", value |-> NoAnalysis]
          ELSE BuildAnalysis(body[1].doc.fields, incident, fraud_score, lax)

\* ---------------------------------------------------------- fallback rule
\* round(x, 2) on a value in 1/10000: the nearest 1/100, a tie going to the
\* even neighbour
Round2(x) ==
  LET q == x \div CentScale
      r == x % CentScale
  IN IF 2 * r > CentScale \/ (2 * r = CentScale /\ q % 2 = 1)
     THEN (q + 1) * CentScale
     ELSE q * CentScale

\* FallbackRate with >= in place of >
FallbackRateInclusive(score) ==
  IF score >= LowPayoutAbove * ScoreScale THEN RateHigh ELSE RateNormal

\* lines 126-128 and 186-188
FallbackValidity(score) ==
  IF score > ReviewAbove * ScoreScale THEN "needs_review" ELSE "valid"
FallbackRecommendation(score) ==
  IF score > ReviewAbove * ScoreScale THEN "manual_review" ELSE "auto_approve"
FallbackRate(score) ==
  IF score > LowPayoutAbove * ScoreScale THEN RateHigh ELSE RateNormal

\* lines 126-136 and 186-196: the rule-based result with the given reasoning;
\* None * 0.85 raises TypeError
FallbackRule(incident, fraud_score, reasoning) ==
  IF incident.claimedAmount.isNone
  THEN [raised |-> "TypeError", value |-> NoAnalysis]
  ELSE [raised |-> "",
        value |-> [validity |-> FallbackValidity(fraud_score.score),
                   recommendation |-> FallbackRecommendation(fraud_score.score),
                   estimated_payout |->
                     Round2(incident.claimedAmount.cents * FallbackRate(fraud_score.score)),
                   red_flags |-> fraud_score.indicators,
                   reasoning |-> reasoning]]

NoKeyReasoning ==
  <<"Automated analysis based on rule-based system. Configure GEMINI_API_KEY for advanced AI insights.">>
ErrorReasoning(exc) == <<"AI analysis fallback due to error: ", exc>>

\* KeyMissing with the test dropped: the collaborator is always called
KeyCheckDropped(k) == FALSE

\* line 124: if not GEMINI_API_KEY
KeyMissing(k) == ~k

\* lines 163-196 once generate_content has answered: the try block, and the
\* except clause when it raised
AfterReply(incident, fraud_score, reply, lax) ==
  LET t == TryBlock(incident, fraud_score, reply, lax)
  IN IF t.exc = ""
     THEN [raised |-> "", value |-> t.value, exc |-> ""]
     ELSE LET f == FallbackRule(incident, fraud_score, ErrorReasoning(t.exc))
          IN [raised |-> f.raised, value |-> f.value, exc |-> t.exc]

\* DeriveStatus with >= in place of > on the score
DeriveStatusInclusive(recommendation, score) ==
  IF recommendation = "auto_approve" /\ score < ApproveBelow * ScoreScale THEN "approved"
  ELSE IF recommendation = "reject" \/ score >= FlagAbove * ScoreScale THEN "flagged"
  ELSE "processing"

\* lines 227-232
DeriveStatus(recommendation, score) ==
  IF recommendation = "auto_approve" /\ score < ApproveBelow * ScoreScale THEN "approved"
  ELSE IF recommendation = "reject" \/ score > FlagAbove * ScoreScale THEN "flagged"
  ELSE "processing"

\* ------------------------------------------------------------------ state
VARIABLES
  key,        \* GEMINI_API_KEY is set (line 11)
  lax,        \* the installed pydantic turns numbers into text for str fields
  loop,       \* the request whose handler the event loop is running, 0 = none
  pc,         \* where each request is
  incident,   \* request.incidentData
  fraud,      \* fraud_score
  analysis,   \* ai_analysis
  exc,        \* the exception e caught at line 183, "" when none
  calls,      \* calls of model.generate_content made for the request
  status,     \* status
  raised      \* the exception that left the handler, "" when none

vars == <<key, lax, loop, pc, incident, fraud, analysis, exc, calls, status, raised>>

Requests == 1..NumReq

\* the service after start-up: no request in flight
Init ==
  /\ key \in BOOLEAN
  /\ lax \in BOOLEAN
  /\ loop = 0
  /\ pc = [i \in Requests |-> "idle"]
  /\ incident = [i \in Requests |-> NoIncident]
  /\ fraud = [i \in Requests |-> NoFraud]
  /\ analysis = [i \in Requests |-> NoAnalysis]
  /\ exc = [i \in Requests |-> ""]
  /\ calls = [i \in Requests |-> 0]
  /\ status = [i \in Requests |-> ""]
  /\ raised = [i \in Requests |-> ""]

\* a client sends POST /api/claims/analyze; the request waits for the loop
Arrive(i) ==
  /\ pc[i] = "idle"
  /\ pc' = [pc EXCEPT ![i] = "pending"]
  /\ UNCHANGED <<key, lax, loop, incident, fraud, analysis, exc, calls, status, raised>>

\* the loop starts the handler on a validated body: line 221
Score(i) ==
  /\ pc[i] = "pending"
  /\ loop = 0
  /\ \E inc \in Incidents :
       LET r == calculate_fraud_score(inc)
       IN /\ incident' = [incident EXCEPT ![i] = inc]
          /\ fraud' = [fraud EXCEPT ![i] = r.value]
          /\ raised' = [raised EXCEPT ![i] = r.raised]
          /\ pc' = [pc EXCEPT ![i] = IF r.raised = "" THEN "scored" ELSE "failed"]
  /\ loop' = i
  /\ UNCHANGED <<key, lax, analysis, exc, calls, status>>

\* line 224 up to the collaborator call: without a key the rule-based result
\* is returned (lines 124-136); with a key generate_content is called (line
\* 164), a synchronous call made on the loop's thread
Adjudicate(i) ==
  /\ pc[i] = "scored"
  /\ loop = i
  /\ IF KeyMissing(key)
     THEN LET f == FallbackRule(incident[i], fraud[i], NoKeyReasoning)
          IN /\ analysis' = [analysis EXCEPT ![i] = f.value]
             /\ raised' = [raised EXCEPT ![i] = f.raised]
             /\ pc' = [pc EXCEPT ![i] = IF f.raised = "" THEN "adjudicated" ELSE "failed"]
             /\ UNCHANGED calls
     ELSE /\ calls' = [calls EXCEPT ![i] = @ + 1]
          /\ pc' = [pc EXCEPT ![i] = "ai_wait"]
          /\ UNCHANGED <<analysis, raised>>
  /\ UNCHANGED <<key, lax, loop, incident, fraud, exc, status>>

\* generate_content returns or raises, and lines 165-196 run to the return
AIReply(i) ==
  /\ pc[i] = "ai_wait"
  /\ loop = i
  /\ \E reply \in Replies :
       LET r == AfterReply(incident[i], fraud[i], reply, lax)
       IN /\ analysis' = [analysis EXCEPT ![i] = r.value]
          /\ exc' = [exc EXCEPT ![i] = r.exc]
          /\ raised' = [raised EXCEPT ![i] = r.raised]
          /\ pc' = [pc EXCEPT ![i] = IF r.raised = "" THEN "adjudicated" ELSE "failed"]
  /\ UNCHANGED <<key, lax, loop, incident, fraud, calls, status>>

\* lines 226-243: the status and the response
Respond(i) ==
  /\ pc[i] = "adjudicated"
  /\ loop = i
  /\ status' = [status EXCEPT ![i] = DeriveStatus(analysis[i].recommendation, fraud[i].score)]
  /\ pc' = [pc EXCEPT ![i] = "responded"]
  /\ UNCHANGED <<key, lax, loop, incident, fraud, analysis, exc, calls, raised>>

\* the handler has returned or raised: the response (or a server error) goes
\* out, the request's data is dropped and the loop is free again
Done(i) ==
  /\ pc[i] \in {"responded", "failed"}
  /\ loop = i
  /\ loop' = 0
  /\ pc' = [pc EXCEPT ![i] = "idle"]
  /\ incident' = [incident EXCEPT ![i] = NoIncident]
  /\ fraud' = [fraud EXCEPT ![i] = NoFraud]
  /\ analysis' = [analysis EXCEPT ![i] = NoAnalysis]
  /\ exc' = [exc EXCEPT ![i] = ""]
  /\ calls' = [calls EXCEPT ![i] = 0]
  /\ status' = [status EXCEPT ![i] = ""]
  /\ raised' = [raised EXCEPT ![i] = ""]
  /\ UNCHANGED <<key, lax>>

Next ==
  \/ \E i \in Requests : Arrive(i)
  \/ \E i \in Requests : Score(i)
  \/ \E i \in Requests : Adjudicate(i)
  \/ \E i \in Requests : AIReply(i)
  \/ \E i \in Requests : Respond(i)
  \/ \E i \in Requests : Done(i)

Spec == Init /\ [][Next]_vars

\* ------------------------------------------- the adjudicator on any arguments
\* ai_analyze_claim and the status derivation take any IncidentData and any
\* FraudScore: UnitSpec starts them on arguments drawn from these sets.
UnitAmounts == Amounts \cup { Amount(1), Amount(100000) }

UnitIncidents ==
  { [ location |-> Pad(MinLocLen), dateTime |-> <<"2","0","2","4","-","0","1","-","0","8">>,
      description |-> Pad(MinDescLen), injuries |-> FALSE, propertyDamage |-> TRUE,
      claimedAmount |-> a ] : a \in UnitAmounts }

UnitScores ==
  { 0, 1000, 2000, LowBelow * ScoreScale - 1, LowBelow * ScoreScale,
    ReviewAbove * ScoreScale, ReviewAbove * ScoreScale + 1, 5000,
    LowPayoutAbove * ScoreScale, LowPayoutAbove * ScoreScale + 1, 7000,
    FlagAbove * ScoreScale, FlagAbove * ScoreScale + 1, 8500, MaxScore * ScoreScale }

UnitFraudScores ==
  { [ score |-> sc, risk_level |-> RiskLevel(sc), indicators |-> ind,
      confidence |-> Confidence(sc) ] :
    sc \in UnitScores,
    ind \in { <<>>, <<"High claim amount">>, <<"Insufficient details", "Vague location">> } }

UnitInit ==
  /\ key \in BOOLEAN
  /\ lax \in BOOLEAN
  /\ loop = 1
  /\ pc = [i \in Requests |-> IF i = 1 THEN "scored" ELSE "idle"]
  /\ \E inc \in UnitIncidents :
       incident = [i \in Requests |-> IF i = 1 THEN inc ELSE NoIncident]
  /\ \E fs \in UnitFraudScores :
       fraud = [i \in Requests |-> IF i = 1 THEN fs ELSE NoFraud]
  /\ analysis = [i \in Requests |-> NoAnalysis]
  /\ exc = [i \in Requests |-> ""]
  /\ calls = [i \in Requests |-> 0]
  /\ status = [i \in Requests |-> ""]
  /\ raised = [i \in Requests |-> ""]

UnitNext ==
  \/ \E i \in Requests : Adjudicate(i)
  \/ \E i \in Requests : AIReply(i)
  \/ \E i \in Requests : Respond(i)

UnitSpec == UnitInit /\ [][UnitNext]_vars

\* ------------------------------------------------------------- properties
Validities == {"valid", "questionable", "invalid", "needs_review"}
Recommendations == {"auto_approve", "manual_review", "reject"}

\* calculate_fraud_score has just returned for request i
Scored(i) == pc[i] = "scored"
\* ai_analyze_claim has returned for request i
Adjudicated(i) == pc[i] \in {"adjudicated", "responded"}
\* ai_analyze_claim has returned or raised for request i (UnitSpec: the only
\* call that can raise is ai_analyze_claim)
AdjudicatorLeft(i) == pc[i] \in {"adjudicated", "responded", "failed"}
\* the result came from the rule-based fallback
FellBack(i) == KeyMissing(key) \/ exc[i] # ""

\* the fallback rule's verdict for the request's score
RuleVerdict(i) ==
  /\ fraud[i].score > 40 * ScoreScale =>
       analysis[i].validity = "needs_review" /\ analysis[i].recommendation = "manual_review"
  /\ fraud[i].score <= 40 * ScoreScale =>
       analysis[i].validity = "valid" /\ analysis[i].recommendation = "auto_approve"
  /\ analysis[i].red_flags = fraud[i].indicators

\* the exact product amount * rate, in 1/10000
RuleProduct(i) ==
  incident[i].claimedAmount.cents * (IF fraud[i].score > 60 * ScoreScale THEN 60 ELSE 85)

\* x is a whole number of cents and no further than half a cent from y
NearestCent(x, y) ==
  /\ x % CentScale = 0
  /\ 2 * (x - y) <= CentScale
  /\ 2 * (y - x) <= CentScale

\* C1: with a key configured, whenever the collaborator step fails (the call
\* raises, the reply is not JSON or not an object, a field has the wrong
\* type) ai_analyze_claim raises nothing and returns the fallback rule's
\* validity, recommendation, payout and red flags, with the cause in the
\* reasoning.
C1_FailureFallsBack ==
  \A i \in Requests :
    (~KeyMissing(key) /\ AdjudicatorLeft(i) /\ exc[i] # "") =>
      /\ raised[i] = ""
      /\ RuleVerdict(i)
      /\ NearestCent(analysis[i].estimated_payout, RuleProduct(i))
      /\ analysis[i].reasoning = <<"AI analysis fallback due to error: ", exc[i]>>

\* C2 as stated: on both fallback paths the verdict follows score > 40, the
\* payout is exactly 0.6 * amount above 60 and 0.85 * amount otherwise, and
\* the red flags are the indicators.
C2_ExactProduct ==
  \A i \in Requests :
    (Adjudicated(i) /\ FellBack(i)) =>
      /\ RuleVerdict(i)
      /\ analysis[i].estimated_payout = RuleProduct(i)

\* C2 amended: as C2, with the payout being that product rounded to two
\* decimals; the paths differ only in the reasoning text.
C2_RoundedProduct ==
  \A i \in Requests :
    (Adjudicated(i) /\ FellBack(i)) =>
      /\ RuleVerdict(i)
      /\ NearestCent(analysis[i].estimated_payout, RuleProduct(i))
      /\ analysis[i].reasoning =
           (IF KeyMissing(key) THEN NoKeyReasoning
            ELSE <<"AI analysis fallback due to error: ", exc[i]>>)

C2_Witness ==
  \E i \in Requests :
    /\ Adjudicated(i) /\ exc[i] # ""
    /\ fraud[i].score = 7000
    /\ incident[i].claimedAmount = Amount(100000)
    /\ analysis[i].estimated_payout = Dollars(600)

\* C3: the status is approved when the recommendation is auto_approve and
\* the score is below 30; otherwise flagged when the recommendation is
\* reject or the score is above 80; otherwise processing.  So reject is
\* flagged at every score, and a score above 80 is flagged for every
\* recommendation.
C3_StatusPriority ==
  \A i \in Requests :
    pc[i] = "responded" =>
      LET r == analysis[i].recommendation
          sc == fraud[i].score
          approve == r = "auto_approve" /\ sc < 30 * ScoreScale
          flag == r = "reject" \/ sc > 80 * ScoreScale
      IN /\ approve => status[i] = "approved"
         /\ (~approve /\ flag) => status[i] = "flagged"
         /\ (~approve /\ ~flag) => status[i] = "processing"
         /\ r = "reject" => status[i] = "flagged"
         /\ sc > 80 * ScoreScale => status[i] = "flagged"

C3_Witness ==
  \E i \in Requests :
    /\ pc[i] = "responded"
    /\ analysis[i].recommendation = "manual_review"
    /\ fraud[i].score = 8500
    /\ status[i] = "flagged"

\* C4: the returned score is in [0, 100], and the risk level and confidence
\* follow from it: below 30 Low 0.85, from 30 and below 60 Medium 0.75, from
\* 60 High 0.90.
C4_ScoreRangeAndTier ==
  \A i \in Requests :
    Scored(i) =>
      LET sc == fraud[i].score
      IN /\ 0 <= sc /\ sc <= 100 * ScoreScale
         /\ sc < 30 * ScoreScale =>
              fraud[i].risk_level = "Low" /\ fraud[i].confidence = 85
         /\ (30 * ScoreScale <= sc /\ sc < 60 * ScoreScale) =>
              fraud[i].risk_level = "Medium" /\ fraud[i].confidence = 75
         /\ sc >= 60 * ScoreScale =>
              fraud[i].risk_level = "High" /\ fraud[i].confidence = 90

C4_Witness ==
  \E i \in Requests :
    /\ Scored(i)
    /\ fraud[i].score = 30 * ScoreScale
    /\ fraud[i].risk_level = "Medium"

\* C5: calculate_fraud_score returns a FraudScore for every incident the
\* request model accepts, a null claimedAmount included, and an unparseable
\* dateTime only leaves out "Weekend incident".
C5_ScorerTotal ==
  \A i \in Requests :
    pc[i] \notin {"idle", "pending"} =>
      /\ fraud[i].risk_level \in {"Low", "Medium", "High"}
      /\ ~IsoOk(ReplaceZ(incident[i].dateTime)) =>
           \A k \in 1..Len(fraud[i].indicators) : fraud[i].indicators[k] # "Weekend incident"

\* C6: while one request waits for the collaborator's reply, a request that
\* is waiting for the loop can be started: the call does not hold the loop.
C6_LoopFreeDuringCall ==
  \A i, j \in Requests :
    (pc[i] = "ai_wait" /\ pc[j] = "pending") => (loop # i /\ ENABLED Score(j))

\* C7: the collaborator is called at most once for a request: once ai_analyze_claim
\* is over, exactly once with a key and never without, and a failed call is
\* not repeated.
C7_OneCall ==
  \A i \in Requests :
    /\ calls[i] <= 1
    /\ AdjudicatorLeft(i) => calls[i] = (IF key THEN 1 ELSE 0)
    /\ exc[i] # "" => (calls[i] = 1 /\ pc[i] # "ai_wait")

C7_Witness ==
  \E i \in Requests :
    /\ key /\ pc[i] = "adjudicated" /\ exc[i] # "" /\ calls[i] = 1
    /\ analysis[i].reasoning[1] = "AI analysis fallback due to error: "

\* C8: on every path the returned validity and recommendation are values of
\* their enumerations.
C8_EnumValues ==
  \A i \in Requests :
    Adjudicated(i) =>
      /\ analysis[i].validity \in Validities
      /\ analysis[i].recommendation \in Recommendations

\* the rules of the claim, in evaluation order: name, weight, condition
RuleTable(inc) ==
  << <<"High claim amount", 25, inc.claimedAmount.cents > 50000 * 100>>,
     <<"Insufficient details", 15, Len(inc.description) < 50>>,
     <<"High-risk incident type", 20,
       Len(inc.description) >= 50 /\ \E w \in Keywords : Contains(Lower(inc.description), w)>>,
     <<"Weekend incident", 10, WeekendFires(inc.dateTime)>>,
     <<"Multiple damage types", 15, inc.injuries /\ inc.propertyDamage>>,
     <<"Vague location", 10, Len(inc.location) < 5>> >>

Fires(row) == row[3]
Fired(inc) == SelectSeq(RuleTable(inc), Fires)

RECURSIVE SumWeights(_)
SumWeights(rows) == IF rows = <<>> THEN 0 ELSE Head(rows)[2] + SumWeights(Tail(rows))

\* C9: the score is the sum of the weights of the rules that fire and the
\* indicators are those rules' names, once each, in evaluation order;
\* "Insufficient details" and "High-risk incident type" never come together.
C9_ScoreIsSumOfFiredRules ==
  \A i \in Requests :
    Scored(i) =>
      LET rows == Fired(incident[i])
          ind == fraud[i].indicators
      IN /\ fraud[i].score = SumWeights(rows) * ScoreScale
         /\ ind = [k \in 1..Len(rows) |-> rows[k][1]]
         /\ ~(\E a, b \in 1..Len(ind) :
                ind[a] = "Insufficient details" /\ ind[b] = "High-risk incident type")

C9_Witness ==
  \E i \in Requests :
    /\ Scored(i)
    /\ Len(incident[i].description) < 50
    /\ \E w \in Keywords : Contains(Lower(incident[i].description), w)
    /\ incident[i].claimedAmount.cents > 50000 * 100
    /\ fraud[i].indicators = <<"High claim amount", "Insufficient details">>
    /\ fraud[i].score = 40 * ScoreScale

\* C10: the score never exceeds 80, so a response is flagged exactly when
\* the recommendation is reject; without a key no response is flagged, and
\* its status is approved exactly when the score is below 30 and processing
\* otherwise.
C10_FlaggedOnlyOnReject ==
  \A i \in Requests :
    /\ Scored(i) => fraud[i].score <= 80 * ScoreScale
    /\ pc[i] = "responded" =>
         /\ status[i] = "flagged" <=> analysis[i].recommendation = "reject"
         /\ KeyMissing(key) =>
              /\ status[i] # "flagged"
              /\ status[i] = "approved" <=> fraud[i].score < 30 * ScoreScale
              /\ status[i] = "processing" <=> fraud[i].score >= 30 * ScoreScale

C10_Witness ==
  \E i \in Requests :
    /\ pc[i] = "responded" /\ ~key
    /\ fraud[i].score = 80 * ScoreScale
    /\ status[i] = "processing"

====
